---- MODULE Spec2Model ----
(***************************************************************************)
(* A model of iget.py: the download pipeline (download, download_many) on  *)
(* a thread pool, with the destination directory as shared state.          *)
(* File names are sequences of one-character strings; a file's content is  *)
(* the kind of bytes it holds.  The environment is the one the download    *)
(* contract is written for: every HTTP GET either returns a body or        *)
(* raises, and the operations on the local directory do not fail.          *)
(***************************************************************************)
EXTENDS Integers, Sequences, FiniteSets, TLC

\* ------------------------------------------------------------------ bounds
NumUrls == 2          \* len(urls) of the modelled run
MaxGets == 5          \* cap of the ghost GET counter
TimeStep == 90        \* granularity of the modelled clock

\* --------------------------------------------------------- program constants
MAX_TRIES == 3
WAIT_TIMEOUT == 180
PAD_WIDTH == 4

prefix == <<"i", "m", "g">>

Tasks == 1..NumUrls

\* the max_workers of the modelled runs
WorkerCounts == {1, 2}

\* the start offsets of the modelled runs (the second crosses 4 digits)
Offsets == {1, 9999}

\* the kinds of response body / file content
Bodies == {"JPEG", "GIF", "TEXT"}

NoFormat == "None"
NoExt == << >>

\* imghdr.what(path): the format the leading bytes identify, or None
what(content) ==
    CASE content = "JPEG" -> "jpeg"
      [] content = "PNG"  -> "png"
      [] content = "GIF"  -> "gif"
      [] OTHER            -> NoFormat

\* str.lower() of what() raises AttributeError on None
LowerRaises(w) == w = NoFormat

FORMAT_EXT ==
    [k \in {"jpg", "jpeg", "png", "svg", "webp", "bmp", "ico"} |->
        CASE k = "jpg"  -> <<".", "j", "p", "g">>
          [] k = "jpeg" -> <<".", "j", "p", "g">>
          [] k = "png"  -> <<".", "p", "n", "g">>
          [] k = "svg"  -> <<".", "s", "v", "g">>
          [] k = "webp" -> <<".", "w", "e", "b", "p">>
          [] k = "bmp"  -> <<".", "b", "m", "p">>
          [] k = "ico"  -> <<".", "i", "c", "o">>]

\* FORMAT_EXT.get(key): None when the key is absent
FormatExtGet(k) == IF k \in DOMAIN FORMAT_EXT THEN FORMAT_EXT[k] ELSE NoExt

Exts == {FORMAT_EXT[k] : k \in DOMAIN FORMAT_EXT}

\* ------------------------------------------------ '{}_{:04d}'.format(prefix, idx)
DigitChar == <<"0", "1", "2", "3", "4", "5", "6", "7", "8", "9">>

RECURSIVE Digits(_)
Digits(n) ==
    IF n < 10 THEN <<DigitChar[n + 1]>>
    ELSE Digits(n \div 10) \o <<DigitChar[(n % 10) + 1]>>

RECURSIVE PadLeft(_, _)
PadLeft(s, w) == IF Len(s) >= w THEN s ELSE PadLeft(<<"0">> \o s, w)

Format04d(n) == PadLeft(Digits(n), PAD_WIDTH)

TaskPrefix(idx) == prefix \o <<"_">> \o Format04d(idx)

\* enumerate(urls, offset): the index of the i-th URL (i = 1 for the first)
TaskIndexBug(off, i) == off
TaskIndex(off, i) == off + (i - 1)

\* int() of a digit string
DigitVal(c) == CHOOSE d \in 0..9 : DigitChar[d + 1] = c

RECURSIVE ParseInt(_)
ParseInt(s) ==
    IF Len(s) = 0 THEN 0
    ELSE 10 * ParseInt(SubSeq(s, 1, Len(s) - 1)) + DigitVal(s[Len(s)])

\* ------------------------------------------------------------- directory
\* files written by an earlier run: the last one before the offset
Existing(off) ==
    IF off = 1 THEN << >>
    ELSE (TaskPrefix(off - 1) \o FORMAT_EXT["jpeg"]) :> "JPEG"

\* open(path, 'wb') + write, shutil.move, os.remove on the directory map
FsWrite(fs, p, c) == [n \in (DOMAIN fs) \cup {p} |-> IF n = p THEN c ELSE fs[n]]
FsRemove(fs, p) == [n \in (DOMAIN fs) \ {p} |-> fs[n]]
FsMove(fs, p, q) == FsWrite(FsRemove(fs, p), q, fs[p])

VARIABLES
    offset,     \* the offset argument of download_many
    workers,    \* the workers argument of download_many
    files,      \* the destination directory: file name -> content
    mainpc,     \* position of download_many
    submitted,  \* number of tasks handed to executor.submit
    queue,      \* the executor's work queue (FIFO of task ids)
    path,       \* per task: os.path.join(dst, prefix), set at submit
    pc,         \* per task: position of download
    tries,      \* per task: the attempt counter
    resp,       \* per task: response.content of the last GET
    outcome,    \* per task: the terminal log lines written
    gets,       \* ghost, per task: HTTP GETs issued
    getRaises,  \* ghost, per task: HTTP GETs that raised
    touched,    \* ghost, per task: paths written, renamed or removed
    clock,      \* time elapsed inside concurrent.futures.wait
    timedOut,   \* concurrent.futures.wait returned on its timeout
    rpc,        \* per run of the tool: position of __main__
    filenames,  \* per run of the tool: the sorted listing of the directory
    roff,       \* per run of the tool: the offset it computed
    epc,        \* position of google_extract_urls
    nArg,       \* the n argument of google_extract_urls
    page,       \* the number of thumbnails the page has rendered
    thumbs,     \* len(thumbs)
    thumbsPrev, \* len(thumbs_prev)
    idx,        \* position of the current for loop
    retry,      \* the retry list (thumbnail numbers)
    images,     \* the image containers found (their outerHTML)
    urls,       \* the URLs collected
    observed,   \* ghost: find_elements has returned in the loop
    scrolled,   \* ghost: a scroll was triggered since the last observation
    errParity,  \* ghost: parity of the number of 'Error' log records
    clk         \* ghost, per thumbnail: visits (v1, v2) and click() calls
                \* (c1, c2) per pass, and whether the first click returned

vars == <<offset, workers, files, mainpc, submitted, queue, path, pc, tries, resp,
          outcome, gets, getRaises, touched, clock, timedOut,
          rpc, filenames, roff,
          epc, nArg, page, thumbs, thumbsPrev, idx, retry, images, urls,
          observed, scrolled, errParity, clk>>

mainVars == <<mainpc, submitted, queue, path, clock, timedOut>>
ghostVars == <<gets, getRaises, touched>>
runVars == <<rpc, filenames, roff>>
dlVars == <<offset, workers, files, mainVars, pc, tries, resp, outcome,
            ghostVars, runVars>>
exVars == <<epc, nArg, page, thumbs, thumbsPrev, idx, retry, images, urls,
            observed, scrolled, errParity, clk>>
\* what no step of download or download_many changes
args == <<offset, workers, runVars, exVars>>

\* two runs of the whole tool: run r downloads one URL, as task r
Runs == {1, 2}

\* the largest number of thumbnails, and of image containers, of a page
MaxThumbs == 2
Thumbs == 1..MaxThumbs

\* google_extract_urls is not running
ExtractIdle ==
    /\ epc = "none"
    /\ nArg = 0
    /\ page = 0
    /\ thumbs = 0
    /\ thumbsPrev = 0
    /\ idx = 0
    /\ retry = << >>
    /\ images = << >>
    /\ urls = << >>
    /\ observed = FALSE
    /\ scrolled = FALSE
    /\ errParity = 0
    /\ clk = [e \in Thumbs |-> [v1 |-> 0, c1 |-> 0, ok1 |-> FALSE, v2 |-> 0, c2 |-> 0]]

\* no run of the whole tool is modelled
RunsIdle ==
    /\ rpc = [r \in Runs |-> "none"]
    /\ filenames = [r \in Runs |-> << >>]
    /\ roff = [r \in Runs |-> 0]

Init ==
    /\ offset \in Offsets
    /\ workers \in WorkerCounts
    /\ files = Existing(offset)
    /\ mainpc = "submit"
    /\ submitted = 0
    /\ queue = << >>
    /\ path = [t \in Tasks |-> << >>]
    /\ pc = [t \in Tasks |-> "unsubmitted"]
    /\ tries = [t \in Tasks |-> 0]
    /\ resp = [t \in Tasks |-> "none"]
    /\ outcome = [t \in Tasks |-> << >>]
    /\ gets = [t \in Tasks |-> 0]
    /\ getRaises = [t \in Tasks |-> 0]
    /\ touched = [t \in Tasks |-> {}]
    /\ clock = 0
    /\ timedOut = FALSE
    /\ RunsIdle
    /\ ExtractIdle

\* ------------------------------------------------------------ download
Running == {t \in Tasks : pc[t] \in {"get", "write", "sniff"}}
AllDone == \A t \in Tasks : pc[t] = "done"

\* tries += 1
NextTriesBug(k) == k + 2
NextTries(k) == k + 1

\* if tries < 3: continue
RetryBug(k) == k <= MAX_TRIES
Retry(k) == k < MAX_TRIES

\* the except clause, entered with the attempt counter at k
HandlerBug(t, k) ==
    IF Retry(k)
    THEN /\ pc' = [pc EXCEPT ![t] = "get"]
         /\ outcome' = outcome
    ELSE /\ pc' = [pc EXCEPT ![t] = "done"]
         /\ outcome' = outcome
Handler(t, k) ==
    IF Retry(k)
    THEN /\ pc' = [pc EXCEPT ![t] = "get"]
         /\ outcome' = outcome
    ELSE /\ pc' = [pc EXCEPT ![t] = "done"]
         /\ outcome' = [outcome EXCEPT ![t] = Append(@, "Exhausted")]

\* the body is unsupported: the sniffer names no format, or one not listed
Unsupported(content) ==
    \/ what(content) = NoFormat
    \/ FormatExtGet(what(content)) = NoExt

\* tries += 1; response = requests.get(...)
Get(t) ==
    /\ pc[t] = "get"
    /\ gets[t] < MaxGets
    /\ tries' = [tries EXCEPT ![t] = NextTries(@)]
    /\ gets' = [gets EXCEPT ![t] = @ + 1]
    /\ \/ \E b \in Bodies :
            /\ resp' = [resp EXCEPT ![t] = b]
            /\ pc' = [pc EXCEPT ![t] = "write"]
            /\ UNCHANGED <<outcome, getRaises>>
       \/ /\ getRaises' = [getRaises EXCEPT ![t] = @ + 1]
          /\ Handler(t, tries'[t])
          /\ UNCHANGED resp
    /\ UNCHANGED <<args, files, mainVars, touched>>

\* with open(path, 'wb') as f: f.write(response.content)
Write(t) ==
    /\ pc[t] = "write"
    /\ files' = FsWrite(files, path[t], resp[t])
    /\ touched' = [touched EXCEPT ![t] = @ \cup {path[t]}]
    /\ pc' = [pc EXCEPT ![t] = "sniff"]
    /\ UNCHANGED <<args, mainVars, tries, resp, outcome, gets, getRaises>>

\* ext = FORMAT_EXT.get(imghdr.what(path).lower()), then move or remove
Sniff(t) ==
    /\ pc[t] = "sniff"
    /\ LET w == IF path[t] \in DOMAIN files THEN what(files[path[t]])
                ELSE NoFormat        \* imghdr.what raises: no such file
       IN IF path[t] \notin DOMAIN files \/ LowerRaises(w)
          THEN /\ Handler(t, tries[t])
               /\ UNCHANGED <<files, touched>>
          ELSE LET ext == FormatExtGet(w)
               IN /\ pc' = [pc EXCEPT ![t] = "done"]
                  /\ IF ext # NoExt
                     THEN /\ files' = FsMove(files, path[t], path[t] \o ext)
                          /\ touched' = [touched EXCEPT
                                           ![t] = @ \cup {path[t], path[t] \o ext}]
                          /\ outcome' = [outcome EXCEPT ![t] = Append(@, "Success")]
                     ELSE /\ files' = FsRemove(files, path[t])
                          /\ touched' = [touched EXCEPT ![t] = @ \cup {path[t]}]
                          /\ outcome' = [outcome EXCEPT
                                           ![t] = Append(@, "UnsupportedFormat")]
    /\ UNCHANGED <<args, mainVars, tries, resp, gets, getRaises>>

\* ------------------------------------------------------- download_many
\* a pool thread takes work only while fewer than max_workers are busy
CanStartBug(n) == TRUE
CanStart(n) == n < workers

\* executor.submit(download, url, dst, '{}_{:04d}'.format(prefix, idx), ...)
Submit ==
    /\ mainpc = "submit"
    /\ submitted < NumUrls
    /\ LET i == submitted + 1
       IN /\ submitted' = i
          /\ path' = [path EXCEPT ![i] = TaskPrefix(TaskIndex(offset, i))]
          /\ pc' = [pc EXCEPT ![i] = "queued"]
          /\ queue' = Append(queue, i)
          /\ mainpc' = IF i = NumUrls THEN "wait" ELSE "submit"
    /\ UNCHANGED <<args, files, tries, resp, outcome, ghostVars, clock, timedOut>>

\* a pool thread dequeues the oldest work item and calls download
Start(t) ==
    /\ queue # << >>
    /\ t = Head(queue)
    /\ CanStart(Cardinality(Running))
    /\ queue' = Tail(queue)
    /\ pc' = [pc EXCEPT ![t] = "get"]
    /\ UNCHANGED <<args, files, mainpc, submitted, path, tries, resp, outcome,
                   ghostVars, clock, timedOut>>

\* time passes while download_many is inside concurrent.futures.wait
Tick ==
    /\ mainpc = "wait"
    /\ clock < WAIT_TIMEOUT
    /\ clock' = IF clock + TimeStep > WAIT_TIMEOUT THEN WAIT_TIMEOUT
                ELSE clock + TimeStep
    /\ UNCHANGED <<args, files, mainpc, submitted, queue, path, pc, tries, resp,
                   outcome, ghostVars, timedOut>>

\* concurrent.futures.wait returns: every future is done
WaitDone ==
    /\ mainpc = "wait"
    /\ AllDone
    /\ mainpc' = "shutdown"
    /\ UNCHANGED <<args, files, submitted, queue, path, pc, tries, resp,
                   outcome, ghostVars, clock, timedOut>>

\* concurrent.futures.wait returns: timeout=180 expired
WaitTimeout ==
    /\ mainpc = "wait"
    /\ ~AllDone
    /\ clock >= WAIT_TIMEOUT
    /\ mainpc' = "shutdown"
    /\ timedOut' = TRUE
    /\ UNCHANGED <<args, files, submitted, queue, path, pc, tries, resp,
                   outcome, ghostVars, clock>>

\* leaving the with block: executor.shutdown(wait=True) joins the pool threads
Return ==
    /\ mainpc = "shutdown"
    /\ AllDone
    /\ mainpc' = "returned"
    /\ UNCHANGED <<args, files, submitted, queue, path, pc, tries, resp,
                   outcome, ghostVars, clock, timedOut>>

Next ==
    \/ Submit
    \/ \E t \in Tasks : Start(t)
    \/ \E t \in Tasks : Get(t)
    \/ \E t \in Tasks : Write(t)
    \/ \E t \in Tasks : Sniff(t)
    \/ Tick
    \/ WaitDone
    \/ WaitTimeout
    \/ Return

Spec == Init /\ [][Next]_vars

\* ------------------------------------------------------------- helpers
Range(q) == {q[i] : i \in 1..Len(q)}
Submitted == {t \in Tasks : t <= submitted}

\* the names in the directory that start with the task's path: the path
\* itself, or the path followed by an extension
TaskFiles(t) ==
    {n \in DOMAIN files :
        /\ Len(n) >= Len(path[t])
        /\ SubSeq(n, 1, Len(path[t])) = path[t]
        /\ (Len(n) > Len(path[t]) => n[Len(path[t]) + 1] = ".")}

\* the files the run added to the directory
NewFiles == (DOMAIN files) \ (DOMAIN Existing(offset))

\* the digits after '{prefix}_' in a task's path
Stem(t) == SubSeq(path[t], Len(prefix) + 2, Len(path[t]))

\* ---------------------------------------------------------------- claims

\* C1: a download task records at most one terminal outcome, and a task that
\* has terminated has recorded exactly one of Success (the file is renamed to
\* path + ext), UnsupportedFormat (the file is removed) and Exhausted.
C1_ExactlyOneOutcome ==
    \A t \in Tasks :
        /\ Len(outcome[t]) <= 1
        /\ (pc[t] = "done") <=> (Len(outcome[t]) = 1)
        /\ \A i \in 1..Len(outcome[t]) :
               outcome[t][i] \in {"Success", "UnsupportedFormat", "Exhausted"}
        /\ outcome[t] = <<"Success">> =>
               /\ path[t] \notin DOMAIN files
               /\ \E e \in Exts : (path[t] \o e) \in DOMAIN files
        /\ outcome[t] = <<"UnsupportedFormat">> => TaskFiles(t) = {}

C1_Witness ==
    \E t, u \in Tasks :
        /\ outcome[t] = <<"Success">>
        /\ outcome[u] = <<"Exhausted">>

\* C2: a download task issues at most 3 HTTP GETs, its counter equals the
\* number of GETs issued, and it records Exhausted only after the 3rd attempt
\* raised: a task that terminates after fewer attempts did not raise on its
\* last one.
C2_AtMostThreeGets ==
    \A t \in Tasks :
        /\ gets[t] <= 3
        /\ tries[t] = gets[t]
        /\ outcome[t] = <<"Exhausted">> => gets[t] = 3
        /\ (pc[t] = "get" /\ gets[t] > 0) => gets[t] < 3
        /\ (pc[t] = "done" /\ gets[t] < 3) =>
               outcome[t] \in {<<"Success">>, <<"UnsupportedFormat">>}

C2_Witness ==
    \E t \in Tasks : outcome[t] = <<"Exhausted">> /\ gets[t] = 3

\* C3: once a task has fetched and written a body whose sniffed format is not
\* supported (the sniffer reporting no format included), its next step ends
\* it in UnsupportedFormat: it issues no further GET and is not retried.
C3_NoRetryAfterUnsupported ==
    [][\A t \in Tasks :
          (pc[t] = "sniff" /\ Unsupported(files[path[t]]) /\ pc'[t] # pc[t]) =>
              /\ pc'[t] = "done"
              /\ outcome'[t] = <<"UnsupportedFormat">>
              /\ gets'[t] = gets[t]]_vars

\* C4: when download has terminated and the body it fetched last has an
\* unsupported sniffed format, no file of the task remains in the directory,
\* with or without an extension.
C4_NoFileAfterUnsupported ==
    \A t \in Tasks :
        (pc[t] = "done" /\ resp[t] \in Bodies /\ Unsupported(resp[t])) =>
            TaskFiles(t) = {}

\* C5: when download_many has returned, every file the run added is named
\* {prefix}_{index:04d} of one of its tasks followed by the extension that
\* FORMAT_EXT maps the file's sniffed format to; none is without extension.
C5_FilesNamedBySniffedFormat ==
    mainpc = "returned" =>
        \A n \in NewFiles :
            /\ FormatExtGet(what(files[n])) # NoExt
            /\ \E t \in Tasks :
                   n = TaskPrefix(TaskIndex(offset, t)) \o FormatExtGet(what(files[n]))

\* C6: a task whose HTTP GET raised on all 3 attempts ends in Exhausted and
\* leaves no file at its path, with or without an extension.
C6_ExhaustedLeavesNoFile ==
    \A t \in Tasks :
        (pc[t] = "done" /\ getRaises[t] = 3) =>
            /\ outcome[t] = <<"Exhausted">>
            /\ TaskFiles(t) = {}

C6_Witness ==
    \E t \in Tasks : pc[t] = "done" /\ getRaises[t] = 3 /\ gets[t] = 3

\* C7: a task whose GET raised on the first two attempts and returned a body
\* of a supported format on the third ends in Success with the counter at 3
\* and the file under path + extension; every task that ends in Success does
\* so with the counter equal to the number of the attempt that succeeded.
C7_SuccessOnAttemptK ==
    \A t \in Tasks :
        /\ (pc[t] = "done" /\ getRaises[t] = 2 /\ gets[t] = 3
              /\ resp[t] \in Bodies /\ ~Unsupported(resp[t])) =>
               /\ outcome[t] = <<"Success">>
               /\ tries[t] = 3
        /\ outcome[t] = <<"Success">> =>
               /\ tries[t] = gets[t]
               /\ (path[t] \o FORMAT_EXT[what(resp[t])]) \in DOMAIN files
               /\ files[path[t] \o FORMAT_EXT[what(resp[t])]] = resp[t]

C7_Witness ==
    \E t \in Tasks :
        /\ outcome[t] = <<"Success">>
        /\ getRaises[t] = 2
        /\ tries[t] = 3

\* C8: the i-th URL gets the index offset + i (0-based) in the path segment
\* {prefix}_{index:04d}; the paths of one run are pairwise distinct, no two
\* tasks write, rename or remove the same path, and the run adds at most
\* len(urls) files.
C8_DistinctPaths ==
    /\ \A t \in Submitted :
          /\ SubSeq(path[t], 1, Len(prefix) + 1) = prefix \o <<"_">>
          /\ Len(Stem(t)) >= 4
          /\ (Len(Stem(t)) > 4 => Stem(t)[1] # "0")
          /\ ParseInt(Stem(t)) = offset + (t - 1)
    /\ \A t, u \in Submitted :
          t # u => (path[t] # path[u] /\ touched[t] \cap touched[u] = {})
    /\ Cardinality(NewFiles) <= NumUrls

C8_Witness ==
    /\ offset = 9999
    /\ \A t \in Tasks : outcome[t] = <<"Success">>
    /\ Cardinality(NewFiles) = NumUrls

\* C9: when the 180 ceiling of the wait has expired with a task still
\* running, download_many can return to its caller without waiting for it.
C9_ReturnsAtCeiling ==
    (mainpc = "shutdown" /\ timedOut /\ Running # {}) => ENABLED Return

\* C10: at most max_workers tasks have started and not terminated; every
\* other submitted task that has not terminated is in the queue; submission
\* never waits for a task.
C10_BoundedPool ==
    /\ Cardinality(Running) <= workers
    /\ \A t \in Tasks :
          /\ (t \in Submitted) <=> (pc[t] # "unsubmitted")
          /\ (pc[t] = "queued") <=> (t \in Range(queue))
    /\ (mainpc = "submit") => ENABLED Submit

C10_Witness ==
    /\ Cardinality(Running) = workers
    /\ queue # << >>
    /\ \A t \in Tasks : pc[t] # "done"

\* C11: a step of one download task leaves every sibling alone: the sibling's
\* position, counter, response and outcome and the files under the sibling's
\* path are unchanged, whatever the stepping task's outcome; and a failed
\* task never keeps download_many from returning once all tasks are done.
C11_FailureIsolated ==
    [][/\ \A t \in Tasks :
             (pc'[t] = pc[t] /\ tries'[t] = tries[t] /\ path[t] # << >>) =>
                 /\ outcome'[t] = outcome[t]
                 /\ resp'[t] = resp[t]
                 /\ touched'[t] = touched[t]
                 /\ \A e \in Exts \cup {NoExt} :
                        /\ (path[t] \o e \in DOMAIN files') <=>
                               (path[t] \o e \in DOMAIN files)
                        /\ (path[t] \o e \in DOMAIN files) =>
                               files'[path[t] \o e] = files[path[t] \o e]
      /\ ((mainpc = "shutdown" /\ AllDone) => ENABLED Return)]_vars

C11_Witness ==
    \E t, u \in Tasks :
        /\ outcome[t] \in {<<"Exhausted">>, <<"UnsupportedFormat">>}
        /\ outcome[u] = <<"Success">>
        /\ mainpc = "returned"

\* ------------------------------------------- __main__: the offset computation
\* the characters of the modelled file names, in code point order
Alphabet ==
    <<".", "0", "1", "2", "3", "4", "5", "6", "7", "8", "9", "_",
      "b", "c", "e", "g", "i", "j", "m", "n", "o", "p", "s", "v", "w">>

CharRank(c) == CHOOSE i \in 1..Len(Alphabet) : Alphabet[i] = c

\* a < b for str: the first differing character decides, a proper prefix is less
StrLess(a, b) ==
    \E k \in 1..Len(b) :
        /\ \A j \in 1..(k - 1) : j <= Len(a) /\ a[j] = b[j]
        /\ (k > Len(a) \/ CharRank(a[k]) < CharRank(b[k]))

\* sorted(names): the i-th element is the one with i - 1 smaller elements
Sorted(S) ==
    [i \in 1..Cardinality(S) |->
        CHOOSE x \in S : Cardinality({y \in S : StrLess(y, x)}) = i - 1]

\* filename.startswith(p)
StartsWith(name, p) == Len(name) >= Len(p) /\ SubSeq(name, 1, Len(p)) = p

\* the index of the last '.' of a name, 0 when there is none
LastDot(name) ==
    IF \E i \in 1..Len(name) : name[i] = "."
    THEN CHOOSE i \in 1..Len(name) :
             name[i] = "." /\ \A j \in (i + 1)..Len(name) : name[j] # "."
    ELSE 0

\* os.path.splitext(name)[0]
SplitextRoot(name) ==
    IF LastDot(name) > 1 THEN SubSeq(name, 1, LastDot(name) - 1) ELSE name

\* sorted([filename for filename in os.listdir(dst) if filename.startswith(prefix)])
Listing(fs) == Sorted({name \in DOMAIN fs : StartsWith(name, prefix)})

\* int(os.path.splitext(filenames[-1])[0][len(prefix)+1:]) + 1, or 1
OffsetOfBug(names) ==
    IF names # << >>
    THEN LET root == SplitextRoot(names[1])
         IN ParseInt(SubSeq(root, Len(prefix) + 2, Len(root))) + 1
    ELSE 1
OffsetOf(names) ==
    IF names # << >>
    THEN LET root == SplitextRoot(names[Len(names)])
         IN ParseInt(SubSeq(root, Len(prefix) + 2, Len(root))) + 1
    ELSE 1

\* a directory holding {prefix}_0001 .. {prefix}_000k with varying extensions
DirUpTo(k) ==
    [name \in {TaskPrefix(i) \o
                 (IF i % 2 = 1 THEN FORMAT_EXT["jpeg"] ELSE FORMAT_EXT["png"]) :
               i \in 1..k} |-> "JPEG"]

\* the directories the modelled runs of the tool start from
SeedDirs == {DirUpTo(0), DirUpTo(7), Existing(10000)}

\* filenames = sorted(...); offset = ...
\* a run may list the directory whatever the other runs are doing
MayListBug(r) == \A q \in Runs : rpc[q] \in {"start", "done"}
MayList(r) == TRUE

\* control of the listing step: nothing but the run's own position guards it
ListStep(r) ==
    /\ rpc[r] = "start"
    /\ MayList(r)
    /\ rpc' = [rpc EXCEPT ![r] = "submit"]

ComputeOffset(r) ==
    /\ ListStep(r)
    /\ LET names == Listing(files)
       IN /\ filenames' = [filenames EXCEPT ![r] = names]
          /\ roff' = [roff EXCEPT ![r] = OffsetOf(names)]
    /\ UNCHANGED <<offset, workers, files, mainVars, pc, tries, resp, outcome,
                   ghostVars, exVars>>

\* download_many(urls, dst, offset, prefix, ...) with one URL: the task is
\* submitted with the run's offset and a pool thread of the run starts it
RunSubmit(r) ==
    /\ rpc[r] = "submit"
    /\ path' = [path EXCEPT ![r] = TaskPrefix(TaskIndex(roff[r], 1))]
    /\ pc' = [pc EXCEPT ![r] = "get"]
    /\ rpc' = [rpc EXCEPT ![r] = "download"]
    /\ UNCHANGED <<offset, workers, files, mainpc, submitted, queue, clock,
                   timedOut, tries, resp, outcome, ghostVars, filenames, roff,
                   exVars>>

\* download_many returns to __main__ when the run's task is done
RunReturn(r) ==
    /\ rpc[r] = "download"
    /\ pc[r] = "done"
    /\ rpc' = [rpc EXCEPT ![r] = "done"]
    /\ UNCHANGED <<offset, workers, files, mainVars, pc, tries, resp, outcome,
                   ghostVars, filenames, roff, exVars>>

InitRuns ==
    /\ offset = 1
    /\ workers = 1
    /\ files \in SeedDirs
    /\ mainpc = "main"
    /\ submitted = 0
    /\ queue = << >>
    /\ path = [t \in Tasks |-> << >>]
    /\ pc = [t \in Tasks |-> "unsubmitted"]
    /\ tries = [t \in Tasks |-> 0]
    /\ resp = [t \in Tasks |-> "none"]
    /\ outcome = [t \in Tasks |-> << >>]
    /\ gets = [t \in Tasks |-> 0]
    /\ getRaises = [t \in Tasks |-> 0]
    /\ touched = [t \in Tasks |-> {}]
    /\ clock = 0
    /\ timedOut = FALSE
    /\ rpc = [r \in Runs |-> "start"]
    /\ filenames = [r \in Runs |-> << >>]
    /\ roff = [r \in Runs |-> 0]
    /\ ExtractIdle

NextRuns ==
    \/ \E r \in Runs : ComputeOffset(r)
    \/ \E r \in Runs : RunSubmit(r)
    \/ \E r \in Runs : Get(r)
    \/ \E r \in Runs : Write(r)
    \/ \E r \in Runs : Sniff(r)
    \/ \E r \in Runs : RunReturn(r)

SpecRuns == InitRuns /\ [][NextRuns]_vars

\* the number after '{prefix}_' in a file name
IndexOfName(name) ==
    ParseInt(SubSeq(SplitextRoot(name), Len(prefix) + 2, Len(SplitextRoot(name))))

\* the prefixed names in the directory
Prefixed == {name \in DOMAIN files : StartsWith(name, prefix)}

\* run r computes its offset in this step
Lists(r) == rpc[r] = "start" /\ rpc'[r] = "submit"

\* C12: the offset computed is 1 when no file name starts with the prefix,
\* otherwise the number in the lexicographically last such name plus 1; when
\* the files are {prefix}_0001 .. {prefix}_000k, with any extensions, it is k+1.
C12_OffsetRule ==
    [][\A r \in Runs :
          Lists(r) =>
              /\ Prefixed = {} => roff'[r] = 1
              /\ Prefixed # {} =>
                     \E last \in Prefixed :
                         /\ \A y \in Prefixed : y = last \/ StrLess(y, last)
                         /\ roff'[r] = IndexOfName(last) + 1
              /\ \A k \in 1..9 :
                     ({SplitextRoot(name) : name \in Prefixed} =
                        {prefix \o <<"_", "0", "0", "0", DigitChar[i + 1]>> : i \in 1..k})
                         => roff'[r] = k + 1]_vars

C12_Witness ==
    \E r, q \in Runs :
        /\ rpc[r] # "start" /\ roff[r] = 8
        /\ rpc[q] # "start" /\ roff[q] = 9

\* C13: a run that starts when no other run is in progress computes an offset
\* strictly greater than the index of every prefixed file in the directory.
C13_OffsetAboveExisting ==
    [][\A r \in Runs :
          (Lists(r) /\ \A q \in Runs \ {r} : rpc[q] \in {"start", "done"}) =>
              \A name \in Prefixed : roff'[r] > IndexOfName(name)]_vars

\* C19: no step of a run waits for another run: a run can list the directory
\* and compute its offset, submit its task and write its file whatever the
\* other run is doing; two runs that saw the same listing computed the same
\* offset and gave their tasks the same path.
C19_NoCrossRunLock ==
    /\ \A r \in Runs :
          /\ rpc[r] = "start" => ENABLED ListStep(r)
          /\ rpc[r] = "submit" => ENABLED RunSubmit(r)
          /\ (rpc[r] = "download" /\ pc[r] = "write") => ENABLED Write(r)
    /\ \A r, q \in Runs :
          (rpc[r] \notin {"start", "submit"} /\ rpc[q] \notin {"start", "submit"}
             /\ filenames[r] = filenames[q]) =>
              /\ roff[r] = roff[q]
              /\ path[r] = path[q]

C19_Witness ==
    \E r, q \in Runs :
        /\ r # q
        /\ filenames[r] = filenames[q]
        /\ roff[r] = roff[q]
        /\ path[r] = path[q]
        /\ touched[r] \cap touched[q] # {}
        /\ outcome[r] = <<"Success">>
        /\ outcome[q] = <<"Exhausted">>

\* ---------------------------------------------------------------------
\* google_extract_urls: the discovery loop
\* ---------------------------------------------------------------------

\* the values of the n argument
NValues == 0..(MaxThumbs + 1)

\* the positions inside the while True loop
Loop == {"find", "scroll", "more"}

\* logger.exception('Error') writes one more record
Logged == errParity' = 1 - errParity

\* the two break conditions of the loop
ExitLoopBug(k, nn, prev) == k > nn \/ k = prev
ExitLoop(k, nn, prev) == k >= nn \/ k = prev

\* find_elements_by_class_name("rg_i") and the two tests on its result
Find ==
    /\ epc = "find"
    /\ \/ /\ Logged
          /\ UNCHANGED <<epc, thumbs, thumbsPrev, observed, scrolled>>
       \/ /\ thumbs' = page
          /\ observed' = TRUE
          /\ scrolled' = FALSE
          /\ IF ExitLoop(page, nArg, thumbsPrev)
                THEN epc' = "check" /\ UNCHANGED thumbsPrev
                ELSE epc' = "scroll" /\ thumbsPrev' = page
          /\ UNCHANGED errParity
    /\ UNCHANGED <<dlVars, nArg, page, idx, retry, images, urls, clk>>

\* execute_script('window.scrollTo(...)'): the page may load more thumbnails
Scroll ==
    /\ epc = "scroll"
    /\ \/ /\ Logged
          /\ epc' = "find"
          /\ UNCHANGED <<page, scrolled>>
       \/ /\ \E p \in page..MaxThumbs : page' = p
          /\ scrolled' = TRUE
          /\ epc' = "more"
          /\ UNCHANGED errParity
    /\ UNCHANGED <<dlVars, nArg, thumbs, thumbsPrev, idx, retry, images, urls,
                   observed, clk>>

\* the 'show more' button: looked up, and clicked when it is usable
ShowMore ==
    /\ epc = "more"
    /\ epc' = "find"
    /\ \/ Logged /\ UNCHANGED page
       \/ UNCHANGED <<errParity, page>>
       \/ (\E p \in page..MaxThumbs : page' = p) /\ UNCHANGED errParity
    /\ UNCHANGED <<dlVars, nArg, thumbs, thumbsPrev, idx, retry, images, urls,
                   observed, scrolled, clk>>

\* if not thumbs: return []
Check ==
    /\ epc = "check"
    /\ IF thumbs = 0
          THEN epc' = "done" /\ UNCHANGED idx
          ELSE epc' = "click1" /\ idx' = 1
    /\ UNCHANGED <<dlVars, nArg, page, thumbs, thumbsPrev, retry, images, urls,
                   observed, scrolled, errParity, clk>>

\* ---------------------------------------------------------------------
\* google_extract_urls: the click phase
\* ---------------------------------------------------------------------

\* the retry list after the first pass has handled thumbnail e
AfterFirstBug(r, e, clicked) == Append(r, e)
AfterFirst(r, e, clicked) == IF clicked THEN r ELSE Append(r, e)

\* where the function goes when the first pass is over
AfterPass1(r) == IF r # << >> THEN "click2" ELSE "images"

\* first pass, thumbnail idx: "skip" is a thumbnail that is not displayed or
\* not enabled, or whose is_displayed()/is_enabled() raised; "ok" and
\* "raise" are the two outcomes of elem.click()
Click1 ==
    /\ epc = "click1"
    /\ \E o \in {"skip", "ok", "raise"} :
          /\ retry' = AfterFirst(retry, idx, o = "ok")
          /\ clk' = [clk EXCEPT ![idx].v1 = @ + 1,
                                ![idx].c1 = IF o = "skip" THEN @ ELSE @ + 1,
                                ![idx].ok1 = (o = "ok")]
    /\ IF idx < thumbs
          THEN idx' = idx + 1 /\ UNCHANGED epc
          ELSE idx' = 1 /\ epc' = AfterPass1(retry')
    /\ UNCHANGED <<dlVars, nArg, page, thumbs, thumbsPrev, images, urls,
                   observed, scrolled, errParity>>

\* second pass, entry idx of the retry list: "skip" is a thumbnail that is
\* still not interactable, "checkraise" a raising is_displayed()/is_enabled()
Click2 ==
    /\ epc = "click2"
    /\ \E o \in {"skip", "checkraise", "ok", "raise"} :
          /\ clk' = [clk EXCEPT ![retry[idx]].v2 = @ + 1,
                                ![retry[idx]].c2 =
                                    IF o \in {"ok", "raise"} THEN @ + 1 ELSE @]
          /\ IF o \in {"checkraise", "raise"}
                THEN Logged
                ELSE UNCHANGED errParity
    /\ IF idx < Len(retry)
          THEN idx' = idx + 1 /\ UNCHANGED epc
          ELSE idx' = 1 /\ epc' = "images"
    /\ UNCHANGED <<dlVars, nArg, page, thumbs, thumbsPrev, retry, images, urls,
                   observed, scrolled>>

\* ---------------------------------------------------------------------
\* google_extract_urls: the scan of the image containers
\* ---------------------------------------------------------------------

\* outerHTML as a sequence of tokens: the two markers of the pattern, a
\* blank, percent-encoded characters and plain text
HtmlA == <<"<a", "imgurl=", "http", "%3A", "%2F", "%2F", "a", "&amp;imgrefurl", ">">>
HtmlB == <<"imgurl=", "b", "&amp;imgrefurl", "c", "&amp;imgrefurl", ">">>
HtmlSpace == <<"<a", "imgurl=", "b", " ", "&amp;imgrefurl", ">">>
HtmlNone == <<"<a", "href", ">">>
Htmls == {HtmlA, HtmlB, HtmlSpace, HtmlNone}

\* the pages: up to MaxThumbs containers
Pages == UNION {[1..k -> Htmls] : k \in 0..MaxThumbs}

\* images[:n]
SliceBug(seq, k) == SubSeq(seq, 1, IF k + 1 < Len(seq) THEN k + 1 ELSE Len(seq))
Slice(seq, k) ==
    IF k >= 0
       THEN SubSeq(seq, 1, IF k < Len(seq) THEN k ELSE Len(seq))
       ELSE SubSeq(seq, 1, Len(seq) + k)

\* imgurl=\S*&amp;imgrefurl can match html[i..j]
Spans(html, i, j) ==
    /\ i < j
    /\ html[i] = "imgurl="
    /\ html[j] = "&amp;imgrefurl"
    /\ \A m \in (i + 1)..(j - 1) : html[m] # " "

\* re.search(pattern, outer_html).group(): leftmost start, longest match;
\* << >> stands for None
Search(html) ==
    LET starts == {i \in 1..Len(html) : \E j \in 1..Len(html) : Spans(html, i, j)}
    IN IF starts = {}
          THEN << >>
          ELSE LET i == CHOOSE x \in starts : \A y \in starts : x <= y
                   j == CHOOSE x \in 1..Len(html) :
                            /\ Spans(html, i, x)
                            /\ \A y \in 1..Len(html) : Spans(html, i, y) => y <= x
               IN SubSeq(html, i, j)

\* group()[7:-14]: drops 'imgurl=' (7 characters) and '&amp;imgrefurl' (14)
Cut(g) == SubSeq(g, 2, Len(g) - 1)

\* urllib.parse.unquote
UnquoteToken(tok) ==
    IF tok = "%3A" THEN ":" ELSE IF tok = "%2F" THEN "/" ELSE tok
unquote(str) == [i \in 1..Len(str) |-> UnquoteToken(str[i])]

\* find_elements_by_class_name("islib"); an error leaves the function
FindImages ==
    /\ epc = "images"
    /\ \/ epc' = "raised" /\ UNCHANGED <<images, urls, idx>>
       \/ \E im \in Pages :
             /\ images' = im
             /\ urls' = << >>
             /\ idx' = 1
             /\ epc' = IF Slice(im, nArg) = << >> THEN "done" ELSE "scan"
    /\ UNCHANGED <<dlVars, nArg, page, thumbs, thumbsPrev, retry,
                   observed, scrolled, errParity, clk>>

\* one round of the for loop over images[:n]
Scan ==
    /\ epc = "scan"
    /\ \/ epc' = "raised" /\ UNCHANGED <<urls, idx>>
       \/ LET re_group == Search(Slice(images, nArg)[idx])
          IN /\ urls' = IF re_group # << >>
                           THEN Append(urls, unquote(Cut(re_group)))
                           ELSE urls
             /\ idx' = idx + 1
             /\ epc' = IF idx < Len(Slice(images, nArg)) THEN "scan" ELSE "done"
    /\ UNCHANGED <<dlVars, nArg, page, thumbs, thumbsPrev, retry, images,
                   observed, scrolled, errParity, clk>>

\* a call of google_extract_urls(driver, n, logger) on some page
InitExtract ==
    /\ offset = 1
    /\ workers = 1
    /\ files = << >>
    /\ mainpc = "extract"
    /\ submitted = 0
    /\ queue = << >>
    /\ path = [t \in Tasks |-> << >>]
    /\ pc = [t \in Tasks |-> "unsubmitted"]
    /\ tries = [t \in Tasks |-> 0]
    /\ resp = [t \in Tasks |-> "none"]
    /\ outcome = [t \in Tasks |-> << >>]
    /\ gets = [t \in Tasks |-> 0]
    /\ getRaises = [t \in Tasks |-> 0]
    /\ touched = [t \in Tasks |-> {}]
    /\ clock = 0
    /\ timedOut = FALSE
    /\ RunsIdle
    /\ epc = "find"
    /\ nArg \in NValues
    /\ page \in 0..MaxThumbs
    /\ thumbs = 0
    /\ thumbsPrev = 0
    /\ idx = 0
    /\ retry = << >>
    /\ images = << >>
    /\ urls = << >>
    /\ observed = FALSE
    /\ scrolled = FALSE
    /\ errParity = 0
    /\ clk = [e \in Thumbs |-> [v1 |-> 0, c1 |-> 0, ok1 |-> FALSE, v2 |-> 0, c2 |-> 0]]

NextExtract ==
    \/ Find
    \/ Scroll
    \/ ShowMore
    \/ Check
    \/ Click1
    \/ Click2
    \/ FindImages
    \/ Scan

SpecExtract == InitExtract /\ [][NextExtract]_vars

\* every browser call returns or raises, and the function then goes on
FairSpecExtract == SpecExtract /\ WF_vars(NextExtract)

\* ---------------------------------------------------------------------
\* Properties of google_extract_urls
\* ---------------------------------------------------------------------

\* C14: an observation of the thumbnail count that is >= n, or that equals
\* the observation before it (even below n), takes the function out of the
\* discovery loop at once, and once out of the loop it never scrolls or
\* clicks 'show more' again.
C14_StopsOnEqualOrEnough ==
    [][/\ (/\ epc = "find"
           /\ epc' # "find"
           /\ (thumbs' >= nArg \/ (observed /\ thumbs' = thumbs)))
          => epc' \notin Loop
       /\ (epc \notin Loop => epc' \notin Loop)]_vars

C14_Witness ==
    /\ epc = "check"
    /\ 0 < thumbs
    /\ thumbs < nArg
    /\ thumbsPrev = thumbs

\* C15: for n >= 0 the function looks at the first n image containers only,
\* and what it returns is, in container order, the decoded URL of each of
\* them that carries a match, nothing standing in for the others; so it
\* returns at most n URLs.
C15_FirstNInOrder ==
    LET first == SubSeq(images, 1, IF nArg < Len(images) THEN nArg ELSE Len(images))
        Matches(h) == h \in {HtmlA, HtmlB}
        matching == SelectSeq(first, Matches)
        decoded(h) == IF h = HtmlA
                         THEN <<"http", ":", "/", "/", "a">>
                         ELSE <<"b", "&amp;imgrefurl", "c">>
    IN /\ epc = "scan" => idx <= Len(first)
       /\ epc = "done" =>
             /\ Len(urls) <= nArg
             /\ urls = [i \in 1..Len(matching) |-> decoded(matching[i])]

C15_Witness ==
    /\ epc = "done"
    /\ nArg = 1
    /\ images = <<HtmlB, HtmlA>>
    /\ urls = << <<"b", "&amp;imgrefurl", "c">> >>

\* C16: when every browser call returns or raises and the thumbnail count
\* is bounded, the discovery loop is eventually left, even when calls in
\* the loop keep raising.
C16_LoopExits == <>(epc \notin Loop)

\* the click phase is over
Clicked == epc \in {"images", "scan", "done", "raised"}

\* C17: a thumbnail gets at most one click() in each pass; one whose first
\* click returned is not visited by the second pass; and when the click
\* phase is over every thumbnail has been handled by the first pass and
\* every one that was not clicked without error has been retried exactly
\* once, whatever errors occurred on the way.
C17_TwoPasses ==
    /\ \A e \in Thumbs :
          /\ clk[e].v1 <= 1 /\ clk[e].c1 <= 1
          /\ clk[e].v2 <= 1 /\ clk[e].c2 <= 1
          /\ clk[e].ok1 => (clk[e].v2 = 0 /\ clk[e].c2 = 0)
    /\ Clicked =>
          \A e \in 1..thumbs :
             /\ clk[e].v1 = 1
             /\ ~clk[e].ok1 => clk[e].v2 = 1

C17_Witness ==
    /\ epc = "images"
    /\ thumbs = 2
    /\ errParity = 1
    /\ clk[1].c1 = 1 /\ ~clk[1].ok1 /\ clk[1].c2 = 1
    /\ clk[2].ok1

\* C18: the loop is left with a count below n (the 'unchanged' exit) only
\* when there was an observation before this one and a scroll to the bottom
\* was triggered between the two.
C18_StallOnlyAfterScroll ==
    [][(epc = "find" /\ epc' = "check" /\ thumbs' < nArg)
          => (observed /\ scrolled)]_vars
====
